---- MODULE Spec2Model ----
(***************************************************************************)
(* MoveIt2Gripper (pymoveit2/moveit2_gripper.py): the gripper command      *)
(* facade on top of the MoveIt2 base interface.                            *)
(*                                                                         *)
(* Positions are exact rationals in units of 0.05, so the reference        *)
(* positions 0.0 and 1.0 are 0 and 20 and the tolerance                    *)
(* 0.1 * |open - closed| is kept as the pair (TolNum * |open - closed|,    *)
(* TolDen).  Python list indices are 0-based and kept 0-based here.        *)
(* A duration is a float with FracBits bits after the binary point, kept   *)
(* as its number of ticks of 2^-FracBits s; on such floats the subtraction *)
(* and the product of lines 52-55 are exact.                               *)
(*                                                                         *)
(* The base class MoveIt2 (pymoveit2/moveit2.py) is modelled from the      *)
(* written description of its components: the joint state tracker          *)
(* (JointStateUpdate), the execution gate (Admit), the action dispatcher   *)
(* (Dispatch, the Goal* events, wait_until_executed) and                   *)
(* move_to_configuration.  In `goals` a goal is Dispatching, Executing,    *)
(* Rejected or Completed; how it completed is reported to ExecutionState.  *)
(* reset_controller, of the base class too, is modelled from the           *)
(* docstrings of reset_open and reset_closed: it sends a dummy joint       *)
(* trajectory.                                                             *)
(*                                                                         *)
(* Spec is one caller thread with the transport's callbacks, and FairSpec  *)
(* its fair version; ClassifierSpec is is_open under joint feedback of any *)
(* layout; DurationSpec is skip-planning mode over a range of durations;   *)
(* RaceSpec is is_open run statement by statement by two threads;          *)
(* ResetSpec adds the reset operations to the commands.                    *)
(***************************************************************************)
EXTENDS Integers, Sequences, FiniteSets, TLC

VARIABLES
    constructed,                      \* __init__ returned without raising
    joint_names,                      \* MoveIt2.joint_names
    open_gripper_joint_positions,     \* self.__open_gripper_joint_positions
    closed_gripper_joint_positions,   \* self.__closed_gripper_joint_positions
    ignore_new_calls_while_executing, \* MoveIt2 admission policy flag
    skip_planning,                    \* self.__skip_planning
    fixed_motion_duration,            \* skip_planning_fixed_motion_duration given
    open_dummy_trajectory_goal,       \* self.__open_dummy_trajectory_goal
    close_dummy_trajectory_goal,      \* self.__close_dummy_trajectory_goal
    open_tolerance,                   \* self.__open_tolerance (numerators over TolDen)
    gripper_joint_indices,            \* self.__gripper_joint_indices
    joint_state,                      \* MoveIt2.joint_state (latest snapshot)
    ExecutionState,                   \* execution state of the tracked goal
    goals,                            \* goals sent to the execution backend
    pc,                               \* caller thread: "ready" or "waiting"
    last_result,                      \* last value wait_until_executed returned
    last_call,                        \* the public call made by the last step
    evaluations                       \* per thread: the evaluation of is_open under way

config_vars == <<constructed, joint_names, open_gripper_joint_positions,
                 closed_gripper_joint_positions, ignore_new_calls_while_executing,
                 skip_planning, fixed_motion_duration, open_dummy_trajectory_goal,
                 close_dummy_trajectory_goal, open_tolerance>>

vars == <<constructed, joint_names, open_gripper_joint_positions,
          closed_gripper_joint_positions, ignore_new_calls_while_executing,
          skip_planning, fixed_motion_duration, open_dummy_trajectory_goal,
          close_dummy_trajectory_goal, open_tolerance, gripper_joint_indices, joint_state, ExecutionState,
          goals, pc, last_result, last_call, evaluations>>

----------------------------------------------------------------------------
(* Bounds of the model.                                                    *)

MaxJoints == 2

MaxSnapLen == 2

MaxGoals == 2

\* Fraction bits of a duration: a duration is a float with FracBits bits
\* after the binary point.
FracBits == 10

----------------------------------------------------------------------------
(* Values.                                                                 *)

\* Optional[List[int]]: None, or a list.
NoList == [is_none |-> TRUE, list |-> <<>>]

SomeList(l) == [is_none |-> FALSE, list |-> l]

\* Optional[JointState]: None, or a message with its name and position arrays.
NoJointState == [is_none |-> TRUE, name |-> <<>>, position |-> <<>>]

JointState(names, positions) ==
    [is_none |-> FALSE, name |-> names, position |-> positions]

Abs(x) == IF x < 0 THEN -x ELSE x

Min(a, b) == IF a < b THEN a ELSE b

\* 0.1 in "0.1 * abs(o - c)" is TolNum / TolDen.
TolNum == 1

TolDen == 10

\* Ticks of a duration in one second.
TicksPerSec == 2 ^ FracBits

\* 10e8 in "int(10e8 * (...))": nanoseconds in one second.
NanosPerSec == 1000000000

\* Default of skip_planning_fixed_motion_duration, 0.5 s.
DefaultDuration == TicksPerSec \div 2

\* Durations given to the constructor: 0, one tick, about a third of a
\* second, 0.5 s, one tick short of 1 s, 1 s, 1.5 s and about 2.3 s.
Durations ==
    {0, 1, TicksPerSec \div 3, TicksPerSec \div 2, TicksPerSec - 1, TicksPerSec,
     TicksPerSec + TicksPerSec \div 2, 2 * TicksPerSec + (3 * TicksPerSec) \div 10}

AllJointNames == <<"j1", "j2", "j3">>

\* Names a joint-state message may carry: the gripper's joints and one joint
\* of another part of the robot.
SnapJointNames == {"j1", "j2", "other"}

\* The joint positions the feedback reports: 0.0, 0.1, 0.15 and 1.0.
PosValues == {0, 2, 3, 20}

\* Reference positions of the i-th configured joint: odd joints open at 0.0 and
\* close at 1.0, even joints the other way round.
OpenRef(i) == IF i % 2 = 1 THEN 0 ELSE 20

ClosedRef(i) == IF i % 2 = 1 THEN 20 ELSE 0

InFlight == {"Dispatching", "Executing"}

Terminal == {"Succeeded", "Rejected", "Aborted", "Canceled"}

----------------------------------------------------------------------------
(* __init__: validation, precomputed goals, tolerance.                     *)

\* As ValidLengths, with the comparison against the closed positions left out.
ValidLengths_OpenOnly(names, open, closed) == Len(names) = Len(open)

\* Line 31: the three vectors must have the same length, else ValueError.
ValidLengths(names, open, closed) ==
    ~(Len(names) # Len(open) \/ Len(names) # Len(closed))

\* As DurationSec, rounding to the nearest second.
DurationSec_Rounded(d) == (d + TicksPerSec \div 2) \div TicksPerSec

\* math.floor(skip_planning_fixed_motion_duration), the duration in ticks.
DurationSec(d) == d \div TicksPerSec

\* int(10e8 * (duration - duration_sec)): the product truncated.  With
\* 10e8 = q * TicksPerSec + r the product 10e8 * frac / TicksPerSec is
\* q * frac + r * frac / TicksPerSec, which keeps every intermediate value
\* within 32 bits.
DurationNanosec(d) ==
    LET frac == d - TicksPerSec * DurationSec(d)
        q == NanosPerSec \div TicksPerSec
        r == NanosPerSec % TicksPerSec
    IN  q * frac + (r * frac) \div TicksPerSec

\* init_follow_joint_trajectory_goal(init_dummy_joint_trajectory_from_state(
\*     init_joint_state(names, positions), duration_sec, duration_nanosec)):
\* a trajectory of one waypoint reached at the given time from start.
DummyTrajectoryGoal(names, positions, d) ==
    [kind |-> "fixed", joint_names |-> names, positions |-> positions,
     waypoints |-> 1,
     duration_sec |-> DurationSec(d), duration_nanosec |-> DurationNanosec(d)]

\* The attribute is never assigned when skip_planning is false.
Unset == [kind |-> "unset"]

\* [0.1 * abs(o - c) for o, c in zip(open, closed)], as numerators over TolDen.
OpenTolerance(open, closed) ==
    [i \in 1..Min(Len(open), Len(closed)) |-> TolNum * Abs(open[i] - closed[i])]

----------------------------------------------------------------------------
(* is_open / is_closed.                                                    *)

\* list.index(name): 0-based position of the first occurrence, -1 for ValueError.
ListIndex(seq, name) ==
    IF \E k \in 1..Len(seq) : seq[k] = name
    THEN (CHOOSE k \in 1..Len(seq) :
              seq[k] = name /\ \A m \in 1..(k - 1) : seq[m] # name) - 1
    ELSE -1

\* Lines 191-193: the list is assigned empty, then extended in place, one
\* index per configured joint; a failed lookup raises and leaves what was
\* appended so far.
RECURSIVE FindIndices(_, _, _, _)
FindIndices(names, state_names, k, acc) ==
    IF k > Len(names) THEN [indices |-> acc, raised |-> FALSE]
    ELSE IF ListIndex(state_names, names[k]) < 0
         THEN [indices |-> acc, raised |-> TRUE]
         ELSE FindIndices(names, state_names, k + 1,
                          Append(acc, ListIndex(state_names, names[k])))

\* Line 190: the indices are searched only while the cache is None.
ResolveIndices(names, state, cache) ==
    IF cache.is_none
    THEN FindIndices(names, state.name, 1, <<>>)
    ELSE [indices |-> cache.list, raised |-> FALSE]

\* Lines 198-204: joint i is outside its open tolerance.
OutsideTolerance(position, open, tol) ==
    TolDen * Abs(position - open) > tol

\* Lines 195-207: the loop over the cached indices; position[j] raises
\* IndexError when the snapshot is shorter than the cached index.
RECURSIVE CheckJoints(_, _, _, _, _)
CheckJoints(indices, state, open, tol, i) ==
    IF i > Len(indices) THEN "true"
    ELSE IF indices[i] + 1 > Len(state.position) THEN "raise"
    ELSE IF OutsideTolerance(state.position[indices[i] + 1], open[i], tol[i])
         THEN "false"
         ELSE CheckJoints(indices, state, open, tol, i + 1)

\* As IsOpenOn, without the default for a joint state that is None.
IsOpenOn_NoDefault(names, open, tol, state, cache) ==
    LET r == ResolveIndices(names, state, cache) IN
    IF r.raised
    THEN [result |-> "raise", indices |-> SomeList(r.indices)]
    ELSE [result |-> CheckJoints(r.indices, state, open, tol, 1),
          indices |-> SomeList(r.indices)]

\* The property is_open: its result ("true", "false" or "raise") and the
\* cache it leaves behind.
IsOpenOn(names, open, tol, state, cache) ==
    IF state.is_none
    THEN [result |-> "true", indices |-> cache]
    ELSE LET r == ResolveIndices(names, state, cache) IN
         IF r.raised
         THEN [result |-> "raise", indices |-> SomeList(r.indices)]
         ELSE [result |-> CheckJoints(r.indices, state, open, tol, 1),
               indices |-> SomeList(r.indices)]

is_open ==
    IsOpenOn(joint_names, open_gripper_joint_positions, open_tolerance,
             joint_state, gripper_joint_indices)

\* not of a result; an exception of is_open propagates.
Negation(result) ==
    CASE result = "true" -> "false"
      [] result = "false" -> "true"
      [] OTHER -> result

\* As is_closed, but true when the joints are at their closed positions.
is_closed_AtClosedReference ==
    IsOpenOn(joint_names, closed_gripper_joint_positions, open_tolerance,
             joint_state, gripper_joint_indices)

\* The property is_closed: not self.is_open.
is_closed == [result |-> Negation(is_open.result), indices |-> is_open.indices]

----------------------------------------------------------------------------
(* The MoveIt2 base interface: execution gate and action dispatcher.       *)

\* ExecutionGate.admit: a new command is dropped when the policy flag is set
\* and a goal is being dispatched or executed.
Admit(state) == ~(ignore_new_calls_while_executing /\ state \in InFlight)

\* build_planned_goal: the target joint configuration for the planner.
PlannedGoal(positions) ==
    [kind |-> "planned", joint_names |-> joint_names, positions |-> positions,
     waypoints |-> 0, duration_sec |-> 0, duration_nanosec |-> 0]

\* What a call does to the dispatcher: the goals sent so far, the execution
\* state, and how the call ended.
NoEffect(outcome) ==
    [goals |-> goals, state |-> ExecutionState, outcome |-> outcome]

\* ActionDispatcher.dispatch: the goal is submitted, tracking moves to it and
\* the execution state becomes Dispatching.
Dispatch(goal) ==
    [goals |-> Append(goals, [goal |-> goal, status |-> "Dispatching"]),
     state |-> "Dispatching", outcome |-> "dispatched"]

\* move_to_configuration: admission check, planned goal, dispatch.
move_to_configuration(positions) ==
    IF Admit(ExecutionState)
    THEN Dispatch(PlannedGoal(positions))
    ELSE NoEffect("dropped")

\* _send_goal_async_follow_joint_trajectory(goal, wait_until_response=False):
\* the dispatcher's submission itself.
send_goal_async_follow_joint_trajectory(goal) == Dispatch(goal)

----------------------------------------------------------------------------
(* The facade.                                                             *)

\* Lines 153-158.
open_without_planning ==
    send_goal_async_follow_joint_trajectory(open_dummy_trajectory_goal)

close_without_planning ==
    send_goal_async_follow_joint_trajectory(close_dummy_trajectory_goal)

\* As OpenGoal, planning whatever the build mode.
OpenGoal_AlwaysPlanned == move_to_configuration(open_gripper_joint_positions)

\* Lines 110-115.
OpenGoal ==
    IF skip_planning
    THEN open_without_planning
    ELSE move_to_configuration(open_gripper_joint_positions)

\* Lines 126-131.
CloseGoal ==
    IF skip_planning
    THEN close_without_planning
    ELSE move_to_configuration(closed_gripper_joint_positions)

\* As OpenEffect, without the no-op check.
OpenEffect_NeverSkips(skip_if_noop) == OpenGoal

\* As OpenEffect, with the no-op check made whatever skip_if_noop is.
OpenEffect_AlwaysChecks(skip_if_noop) ==
    IF is_open.result = "true" THEN NoEffect("skipped") ELSE OpenGoal

\* open(skip_if_noop): "skip_if_noop and self.is_open" reads is_open only when
\* skip_if_noop is true.
OpenEffect(skip_if_noop) ==
    IF skip_if_noop /\ is_open.result = "raise" THEN NoEffect("raised")
    ELSE IF skip_if_noop /\ is_open.result = "true" THEN NoEffect("skipped")
    ELSE OpenGoal

\* close(skip_if_noop), with is_closed.
CloseEffect(skip_if_noop) ==
    IF skip_if_noop /\ is_closed.result = "raise" THEN NoEffect("raised")
    ELSE IF skip_if_noop /\ is_closed.result = "true" THEN NoEffect("skipped")
    ELSE CloseGoal

\* As ToggleEffect, with the two branches exchanged.
ToggleEffect_SameDirection ==
    IF is_open.result = "raise" THEN NoEffect("raised")
    ELSE IF is_open.result = "true" THEN OpenEffect(FALSE)
    ELSE CloseEffect(FALSE)

\* toggle(): close(skip_if_noop=False) when is_open, else open(skip_if_noop=False).
ToggleEffect ==
    IF is_open.result = "raise" THEN NoEffect("raised")
    ELSE IF is_open.result = "true" THEN CloseEffect(FALSE)
    ELSE OpenEffect(FALSE)

NoCall ==
    [op |-> "none", skip_if_noop |-> FALSE, classified |-> "n/a",
     in_flight |-> FALSE, outcome |-> "n/a"]

\* A call's record: the operation, its argument, what is_open returned when
\* the call read it, whether the call found a goal being dispatched or
\* executed, and how it ended.
CallRecord(op, skip_if_noop, classified, outcome) ==
    [op |-> op, skip_if_noop |-> skip_if_noop, classified |-> classified,
     in_flight |-> ExecutionState \in InFlight, outcome |-> outcome]

\* The caller applies a command's effect.
Apply(effect) ==
    /\ Len(effect.goals) <= MaxGoals
    /\ goals' = effect.goals
    /\ ExecutionState' = effect.state
    /\ last_result' = IF effect.outcome = "dispatched" THEN "none" ELSE last_result

CanCall == constructed /\ pc = "ready"

Open(skip_if_noop) ==
    /\ CanCall
    /\ Apply(OpenEffect(skip_if_noop))
    /\ gripper_joint_indices' =
           IF skip_if_noop THEN is_open.indices ELSE gripper_joint_indices
    /\ last_call' = CallRecord("open", skip_if_noop,
                               IF skip_if_noop THEN is_open.result ELSE "n/a",
                               OpenEffect(skip_if_noop).outcome)
    /\ UNCHANGED <<config_vars, evaluations, joint_state, pc>>

Close(skip_if_noop) ==
    /\ CanCall
    /\ Apply(CloseEffect(skip_if_noop))
    /\ gripper_joint_indices' =
           IF skip_if_noop THEN is_closed.indices ELSE gripper_joint_indices
    /\ last_call' = CallRecord("close", skip_if_noop,
                               IF skip_if_noop THEN is_open.result ELSE "n/a",
                               CloseEffect(skip_if_noop).outcome)
    /\ UNCHANGED <<config_vars, evaluations, joint_state, pc>>

Toggle ==
    /\ CanCall
    /\ Apply(ToggleEffect)
    /\ gripper_joint_indices' = is_open.indices
    /\ last_call' = CallRecord("toggle", FALSE, is_open.result, ToggleEffect.outcome)
    /\ UNCHANGED <<config_vars, evaluations, joint_state, pc>>

\* __call__: self.toggle().
Call ==
    /\ CanCall
    /\ Apply(ToggleEffect)
    /\ gripper_joint_indices' = is_open.indices
    /\ last_call' = CallRecord("__call__", FALSE, is_open.result, ToggleEffect.outcome)
    /\ UNCHANGED <<config_vars, evaluations, joint_state, pc>>

\* The caller reads the property is_open.
IsOpen ==
    /\ CanCall
    /\ gripper_joint_indices' = is_open.indices
    /\ last_call' = CallRecord("is_open", FALSE, is_open.result, is_open.result)
    /\ UNCHANGED <<config_vars, evaluations, joint_state, ExecutionState, goals, pc, last_result>>

\* The caller reads the property is_closed.
IsClosed ==
    /\ CanCall
    /\ gripper_joint_indices' = is_closed.indices
    /\ last_call' = CallRecord("is_closed", FALSE, is_open.result, is_closed.result)
    /\ UNCHANGED <<config_vars, evaluations, joint_state, ExecutionState, goals, pc, last_result>>

\* reset_controller(joint_state=positions, sync=sync), which the docstrings
\* of reset_open and reset_closed describe as "sending a dummy joint
\* trajectory": a single-waypoint trajectory at `positions` with no duration,
\* handed to the follow-joint-trajectory dispatcher.
reset_controller(positions) ==
    send_goal_async_follow_joint_trajectory(
        DummyTrajectoryGoal(joint_names, positions, 0))

\* reset_open(sync) and reset_closed(sync): with sync the caller waits for
\* the backend's response to the goal.
Reset(op, positions, sync) ==
    /\ CanCall
    /\ Apply(reset_controller(positions))
    /\ pc' = IF sync THEN "awaiting response" ELSE "ready"
    /\ last_call' = CallRecord(op, FALSE, "n/a", reset_controller(positions).outcome)
    /\ UNCHANGED <<config_vars, evaluations, gripper_joint_indices, joint_state>>

ResetOpen(sync) == Reset("reset_open", open_gripper_joint_positions, sync)

ResetClosed(sync) == Reset("reset_closed", closed_gripper_joint_positions, sync)

\* The caller of a synchronous reset resumes once the goal it sent has been
\* accepted or rejected.
ResponseReturn ==
    /\ constructed
    /\ pc = "awaiting response"
    /\ ExecutionState # "Dispatching"
    /\ pc' = "ready"
    /\ last_call' = NoCall
    /\ UNCHANGED <<config_vars, evaluations, gripper_joint_indices, joint_state,
                   ExecutionState, goals, last_result>>

----------------------------------------------------------------------------
(* is_open statement by statement, as several threads run it.              *)

\* The threads that read is_open: the caller's, and one of the executor
\* running a callback.
Threads == {"caller", "callback"}

\* A thread that is not evaluating is_open.  js is the local joint_state, k
\* the position in the loop under way, attached tells whether the list being
\* iterated is still the one the attribute names (own holds it otherwise)
\* and seen_len is the length that list had when the iteration began.
IdleEval ==
    [at |-> "idle", js |-> NoJointState, k |-> 0, attached |-> TRUE, own |-> <<>>,
     seen_len |-> 0, result |-> "n/a"]

Returning(result) == [IdleEval EXCEPT !.at = "done", !.result = result]

EvalFrame ==
    UNCHANGED <<config_vars, joint_state, ExecutionState, goals, pc, last_result,
                last_call>>

\* Lines 182-186: the snapshot is read once; None returns True.
EvalBegin(t) ==
    /\ constructed
    /\ evaluations[t].at = "idle"
    /\ evaluations' =
           [evaluations EXCEPT ![t] =
                IF joint_state.is_none
                THEN Returning("true")
                ELSE [IdleEval EXCEPT !.at = "check", !.js = joint_state]]
    /\ UNCHANGED gripper_joint_indices
    /\ EvalFrame

\* Line 190: if self.__gripper_joint_indices is None.
EvalCheck(t) ==
    /\ evaluations[t].at = "check"
    /\ evaluations' =
           [evaluations EXCEPT ![t].at =
                IF gripper_joint_indices.is_none THEN "assign" ELSE "iter"]
    /\ UNCHANGED gripper_joint_indices
    /\ EvalFrame

\* Line 191: the attribute names a new empty list; a thread iterating the
\* list named before keeps that list.
EvalAssign(t) ==
    /\ evaluations[t].at = "assign"
    /\ gripper_joint_indices' = SomeList(<<>>)
    /\ evaluations' =
           [u \in Threads |->
                IF u = t
                THEN [evaluations[u] EXCEPT !.at = "build", !.k = 1]
                ELSE IF evaluations[u].at = "loop" /\ evaluations[u].attached
                     THEN [evaluations[u] EXCEPT !.attached = FALSE,
                                                 !.own = gripper_joint_indices.list]
                     ELSE evaluations[u]]
    /\ EvalFrame

\* Lines 192-193: one index is appended to the list the attribute names now;
\* name.index raises ValueError for a joint the snapshot lacks.
EvalAppend(t) ==
    LET e == evaluations[t]
        index == ListIndex(e.js.name, joint_names[e.k])
    IN  /\ e.at = "build"
        /\ IF index < 0
           THEN /\ evaluations' = [evaluations EXCEPT ![t] = Returning("raise")]
                /\ UNCHANGED gripper_joint_indices
           ELSE /\ gripper_joint_indices' =
                       SomeList(Append(gripper_joint_indices.list, index))
                /\ evaluations' =
                       [evaluations EXCEPT
                            ![t].k = e.k + 1,
                            ![t].at = IF e.k = Len(joint_names)
                                      THEN "iter" ELSE "build"]
        /\ EvalFrame

\* Line 195: enumerate(self.__gripper_joint_indices) takes the list the
\* attribute names now.
EvalIter(t) ==
    /\ evaluations[t].at = "iter"
    /\ evaluations' =
           [evaluations EXCEPT ![t].at = "loop", ![t].k = 1, ![t].attached = TRUE,
                               ![t].seen_len = Len(gripper_joint_indices.list)]
    /\ UNCHANGED gripper_joint_indices
    /\ EvalFrame

\* Lines 195-207: one turn of the loop, over the list as it is now.
EvalStep(t) ==
    LET e == evaluations[t]
        list == IF e.attached THEN gripper_joint_indices.list ELSE e.own
    IN  /\ e.at = "loop"
        /\ evaluations' =
               [evaluations EXCEPT ![t] =
                    IF e.k > Len(list) THEN Returning("true")
                    ELSE IF \/ list[e.k] + 1 > Len(e.js.position)
                            \/ e.k > Len(open_gripper_joint_positions)
                         THEN Returning("raise")
                    ELSE IF OutsideTolerance(e.js.position[list[e.k] + 1],
                                             open_gripper_joint_positions[e.k],
                                             open_tolerance[e.k])
                         THEN Returning("false")
                         ELSE [e EXCEPT !.k = e.k + 1]]
        /\ UNCHANGED gripper_joint_indices
        /\ EvalFrame

\* The property's value reaches its reader.
EvalReturn(t) ==
    /\ evaluations[t].at = "done"
    /\ evaluations' = [evaluations EXCEPT ![t] = IdleEval]
    /\ UNCHANGED gripper_joint_indices
    /\ EvalFrame

\* As WaitUntilExecuted, with the state read consumed: after the return the
\* execution state is back to Idle.
WaitUntilExecuted_Consumes ==
    /\ CanCall
    /\ IF ExecutionState \in InFlight
       THEN /\ pc' = "waiting"
            /\ last_call' = CallRecord("wait_until_executed", FALSE, "n/a", "blocked")
            /\ UNCHANGED <<last_result, ExecutionState>>
       ELSE /\ pc' = "ready"
            /\ last_call' = CallRecord("wait_until_executed", FALSE, "n/a",
                                       IF last_result = "none"
                                       THEN "returned" ELSE "returned again")
            /\ last_result' = ExecutionState
            /\ ExecutionState' = "Idle"
    /\ UNCHANGED <<config_vars, evaluations, gripper_joint_indices, joint_state, goals>>

\* wait_until_executed(): returns at once when no goal is outstanding, else
\* the caller blocks.  last_result is "none" from a dispatch until the next
\* return, so "returned again" marks a return with no dispatch since the
\* previous one.
WaitUntilExecuted ==
    /\ CanCall
    /\ IF ExecutionState \in InFlight
       THEN /\ pc' = "waiting"
            /\ last_call' = CallRecord("wait_until_executed", FALSE, "n/a", "blocked")
            /\ UNCHANGED last_result
       ELSE /\ pc' = "ready"
            /\ last_call' = CallRecord("wait_until_executed", FALSE, "n/a",
                                       IF last_result = "none"
                                       THEN "returned" ELSE "returned again")
            /\ last_result' = ExecutionState
    /\ UNCHANGED <<config_vars, evaluations, gripper_joint_indices, joint_state, ExecutionState, goals>>

\* As WaitReturn, but waiting for the goal's acceptance only.
WaitReturn_OnAcceptance ==
    /\ constructed
    /\ pc = "waiting"
    /\ ExecutionState # "Dispatching"
    /\ pc' = "ready"
    /\ last_result' = ExecutionState
    /\ last_call' = CallRecord("wait_until_executed", FALSE, "n/a",
                               "returned after blocking")
    /\ UNCHANGED <<config_vars, evaluations, gripper_joint_indices, joint_state, ExecutionState, goals>>

\* The blocked wait_until_executed() returns once the execution state is
\* no longer Dispatching or Executing.
WaitReturn ==
    /\ constructed
    /\ pc = "waiting"
    /\ ExecutionState \notin InFlight
    /\ pc' = "ready"
    /\ last_result' = ExecutionState
    /\ last_call' = CallRecord("wait_until_executed", FALSE, "n/a",
                               "returned after blocking")
    /\ UNCHANGED <<config_vars, evaluations, gripper_joint_indices, joint_state, ExecutionState, goals>>

----------------------------------------------------------------------------
(* Callbacks of the transport layer.                                       *)

\* Joint feedback: the latest snapshot replaces the previous one.
JointStateUpdate(msg) ==
    /\ constructed
    /\ joint_state' = msg
    /\ last_call' = NoCall
    /\ UNCHANGED <<config_vars, evaluations, gripper_joint_indices, ExecutionState, goals, pc,
                   last_result>>

\* As Tracked, with every goal's events followed.
Tracked_Every(k) == k \in 1..Len(goals)

\* The goal the dispatcher tracks is the one dispatched last.
Tracked(k) == k = Len(goals)

\* A backend event moves goal k to `status` (Dispatching, Executing,
\* Rejected or Completed); the execution state takes the reported `state`
\* when the goal is the tracked one.
GoalEvent(k, status, state) ==
    /\ goals' = [goals EXCEPT ![k].status = status]
    /\ ExecutionState' = IF Tracked(k) THEN state ELSE ExecutionState
    /\ last_call' = NoCall
    /\ UNCHANGED <<config_vars, evaluations, gripper_joint_indices, joint_state, pc, last_result>>

GoalAccepted(k) ==
    /\ goals[k].status = "Dispatching"
    /\ GoalEvent(k, "Executing", "Executing")

GoalRejected(k) ==
    /\ goals[k].status = "Dispatching"
    /\ GoalEvent(k, "Rejected", "Rejected")

\* As GoalCompleted, but a completion is taken for a goal that was never
\* accepted too.
GoalCompleted_Unaccepted(k, outcome) ==
    /\ goals[k].status \in InFlight
    /\ GoalEvent(k, "Completed", outcome)

\* Completion of an accepted goal, with the outcome the backend reports.
GoalCompleted(k, outcome) ==
    /\ goals[k].status = "Executing"
    /\ GoalEvent(k, "Completed", outcome)

----------------------------------------------------------------------------
(* Inputs.                                                                 *)

NoDupSeqs(S, n) ==
    {q \in [1..n -> S] : \A i, j \in 1..n : i # j => q[i] # q[j]}

\* Joint-state messages: any arrangement of up to MaxSnapLen joints.
Snapshots ==
    UNION {{JointState(nm, ps) : nm \in NoDupSeqs(SnapJointNames, n),
                                 ps \in [1..n -> PosValues]} : n \in 1..MaxSnapLen}

\* Joint-state messages of a publisher that lists exactly the gripper's
\* joints, in the configured order: the gripper at its open reference and at
\* its closed reference.
GripperSnapshots ==
    {JointState(joint_names, open_gripper_joint_positions),
     JointState(joint_names, closed_gripper_joint_positions)}

Prefix(f(_), n) == [i \in 1..n |-> f(i)]

JointName(i) == AllJointNames[i]

----------------------------------------------------------------------------
(* Construction and the specifications.                                    *)

\* State after MoveIt2Gripper(...) with the given arguments: either the
\* object, or ValueError and no object.
Construct(names, open, closed, ignore, skip, duration) ==
    /\ constructed = ValidLengths(names, open, closed)
    /\ joint_names = names
    /\ open_gripper_joint_positions = open
    /\ closed_gripper_joint_positions = closed
    /\ ignore_new_calls_while_executing = ignore
    /\ skip_planning = skip
    /\ fixed_motion_duration = duration
    /\ open_dummy_trajectory_goal =
           IF constructed /\ skip
           THEN DummyTrajectoryGoal(names, open, duration) ELSE Unset
    /\ close_dummy_trajectory_goal =
           IF constructed /\ skip
           THEN DummyTrajectoryGoal(names, closed, duration) ELSE Unset
    /\ open_tolerance = IF constructed THEN OpenTolerance(open, closed) ELSE <<>>
    /\ gripper_joint_indices = NoList
    /\ joint_state = NoJointState
    /\ ExecutionState = "Idle"
    /\ goals = <<>>
    /\ pc = "ready"
    /\ last_result = "none"
    /\ last_call = NoCall
    /\ evaluations = [t \in Threads |-> IdleEval]

Init ==
    \E n, no, nc \in 1..MaxJoints, ignore, skip \in BOOLEAN :
        Construct(Prefix(JointName, n), Prefix(OpenRef, no), Prefix(ClosedRef, nc),
                  ignore, skip, DefaultDuration)

Outcomes == {"Succeeded", "Aborted", "Canceled"}

Next ==
    \/ \E skip_if_noop \in BOOLEAN : Open(skip_if_noop)
    \/ \E skip_if_noop \in BOOLEAN : Close(skip_if_noop)
    \/ Toggle
    \/ Call
    \/ WaitUntilExecuted
    \/ WaitReturn
    \/ \E msg \in GripperSnapshots : JointStateUpdate(msg)
    \/ \E k \in 1..Len(goals) : GoalAccepted(k)
    \/ \E k \in 1..Len(goals) : GoalRejected(k)
    \/ \E k \in 1..Len(goals), outcome \in Outcomes : GoalCompleted(k, outcome)

Spec == Init /\ [][Next]_vars

\* The classifier on its own: joint feedback of any layout, and the two
\* properties read by the caller.
ClassifierNext ==
    \/ \E msg \in Snapshots : JointStateUpdate(msg)
    \/ IsOpen
    \/ IsClosed

\* The two flags play no part in the classifier.
ClassifierInit ==
    Init /\ ~ignore_new_calls_while_executing /\ ~skip_planning

ClassifierSpec == ClassifierInit /\ [][ClassifierNext]_vars

\* The fixed-duration goals on their own: construction in skip-planning
\* mode with each duration, then commands and their goals' events.
DurationInit ==
    \E n \in 1..MaxJoints, duration \in Durations :
        Construct(Prefix(JointName, n), Prefix(OpenRef, n), Prefix(ClosedRef, n),
                  FALSE, TRUE, duration)

DurationNext ==
    \/ \E skip_if_noop \in BOOLEAN : Open(skip_if_noop)
    \/ \E skip_if_noop \in BOOLEAN : Close(skip_if_noop)
    \/ \E k \in 1..Len(goals) : GoalAccepted(k)
    \/ \E k \in 1..Len(goals), outcome \in Outcomes : GoalCompleted(k, outcome)

DurationSpec == DurationInit /\ [][DurationNext]_vars

\* is_open read by several threads of the executor, with feedback that
\* lists exactly the gripper's joints.
RaceInit ==
    Init /\ constructed /\ ~ignore_new_calls_while_executing /\ ~skip_planning

RaceNext ==
    \/ \E msg \in GripperSnapshots : JointStateUpdate(msg)
    \/ \E t \in Threads : EvalBegin(t)
    \/ \E t \in Threads : EvalCheck(t)
    \/ \E t \in Threads : EvalAssign(t)
    \/ \E t \in Threads : EvalAppend(t)
    \/ \E t \in Threads : EvalIter(t)
    \/ \E t \in Threads : EvalStep(t)
    \/ \E t \in Threads : EvalReturn(t)

RaceSpec == RaceInit /\ [][RaceNext]_vars

\* The reset operations among the commands and their goals' events.
ResetNext ==
    \/ \E sync \in BOOLEAN : ResetOpen(sync)
    \/ \E sync \in BOOLEAN : ResetClosed(sync)
    \/ ResponseReturn
    \/ \E skip_if_noop \in BOOLEAN : Open(skip_if_noop)
    \/ \E skip_if_noop \in BOOLEAN : Close(skip_if_noop)
    \/ \E k \in 1..Len(goals) : GoalAccepted(k)
    \/ \E k \in 1..Len(goals) : GoalRejected(k)
    \/ \E k \in 1..Len(goals), outcome \in Outcomes : GoalCompleted(k, outcome)

ResetSpec == Init /\ [][ResetNext]_vars

\* The blocked caller polls the execution state, so its return is taken once
\* it stays possible.
FairSpec == Spec /\ WF_vars(WaitReturn)

----------------------------------------------------------------------------
(* Steps of the public calls, and what they send.                          *)

\* This step is a call of `op`.
CallStep(op) == last_call'.op = op /\ last_call' # NoCall

\* This step sends exactly one new goal, for `positions`, and nothing else
\* changes in the goals sent earlier.
SendsOne(positions) ==
    /\ Len(goals') = Len(goals) + 1
    /\ SubSeq(goals', 1, Len(goals)) = goals
    /\ goals'[Len(goals')].goal.positions = positions
    /\ goals'[Len(goals')].status = "Dispatching"

SendsNothing == goals' = goals /\ ExecutionState' = ExecutionState

----------------------------------------------------------------------------
(* C1: with ignore_new_calls_while_executing set, a call of open() or      *)
(* close() made while the execution state is Dispatching or Executing      *)
(* sends no goal and leaves the execution state unchanged, in planned mode *)
(* and in skip-planning mode alike.                                        *)
C1_DroppedWhileInFlight ==
    [][(/\ ignore_new_calls_while_executing
        /\ ExecutionState \in InFlight
        /\ (CallStep("open") \/ CallStep("close")))
       => SendsNothing]_vars

(* C2: open(skip_if_noop=true) while is_open is true, and                  *)
(* close(skip_if_noop=true) while is_closed is true, send no goal and      *)
(* change neither the execution state, the goals sent, the joint state,    *)
(* the configuration nor the caller's position; this includes open()       *)
(* before any joint feedback.                                              *)
C2_NoopSkipped ==
    [][(\/ (CallStep("open") /\ last_call'.skip_if_noop /\ is_open.result = "true")
        \/ (CallStep("close") /\ last_call'.skip_if_noop /\ is_closed.result = "true"))
       => (SendsNothing /\ UNCHANGED <<config_vars, joint_state, pc, last_result>>)]_vars

C2_Witness ==
    /\ last_call.op = "open"
    /\ last_call.skip_if_noop
    /\ last_call.classified = "true"
    /\ last_call.outcome = "skipped"
    /\ ~joint_state.is_none
    /\ ExecutionState = "Succeeded"

(* C3, as stated: every call of open(skip_if_noop=false), in whatever      *)
(* state, sends exactly one new open goal.                                 *)
C3_AlwaysDispatches ==
    [][(CallStep("open") /\ ~last_call'.skip_if_noop)
       => SendsOne(open_gripper_joint_positions)]_vars

(* C3, amended: open(skip_if_noop=false) sends exactly one new open goal   *)
(* whatever is_open says, unless the admission policy applies (flag set    *)
(* and a goal Dispatching or Executing); in planned mode such a call is    *)
(* dropped and nothing changes.                                            *)
C3_DispatchesUnlessGated ==
    [][(CallStep("open") /\ ~last_call'.skip_if_noop)
       => IF ~(ignore_new_calls_while_executing /\ ExecutionState \in InFlight)
          THEN SendsOne(open_gripper_joint_positions) /\ ExecutionState' = "Dispatching"
          ELSE ~skip_planning => SendsNothing]_vars

C3_Witness ==
    /\ last_call.op = "open"
    /\ ~last_call.skip_if_noop
    /\ last_call.outcome = "dispatched"
    /\ ~joint_state.is_none
    /\ is_open.result = "true"
    /\ goals[Len(goals)].goal.positions = open_gripper_joint_positions

(* C4, as stated: every call of toggle() or of the object itself sends a   *)
(* close goal when is_open is true and an open goal when it is false.      *)
C4_ToggleAlwaysActs ==
    [][(CallStep("toggle") \/ CallStep("__call__"))
       => /\ is_open.result = "true" => SendsOne(closed_gripper_joint_positions)
          /\ is_open.result = "false" => SendsOne(open_gripper_joint_positions)]_vars

(* C4, amended: toggle(), and the object called with no argument, send     *)
(* exactly one goal opposite to the classified state (close when is_open   *)
(* is true, open when it is false) and never skip as a no-op, unless the   *)
(* admission policy applies (flag set and a goal Dispatching or            *)
(* Executing); in planned mode such a call is dropped.                     *)
C4_ToggleUnlessGated ==
    [][((CallStep("toggle") \/ CallStep("__call__")) /\ is_open.result # "raise")
       => IF ~(ignore_new_calls_while_executing /\ ExecutionState \in InFlight)
          THEN SendsOne(IF is_open.result = "true"
                        THEN closed_gripper_joint_positions
                        ELSE open_gripper_joint_positions)
          ELSE ~skip_planning => SendsNothing]_vars

\* A close goal sent first; then, the feedback at closed, the next toggle
\* sent an open goal.
C4_Witness ==
    /\ last_call.op \in {"toggle", "__call__"}
    /\ last_call.classified = "false"
    /\ last_call.outcome = "dispatched"
    /\ Len(goals) = 2
    /\ goals[1].goal.positions = closed_gripper_joint_positions
    /\ goals[2].goal.positions = open_gripper_joint_positions
    /\ ~joint_state.is_none

----------------------------------------------------------------------------
(* The classification read off the latest snapshot by joint name.          *)

\* The latest snapshot carries every configured joint.
HasAllJoints ==
    /\ ~joint_state.is_none
    /\ \A i \in 1..Len(joint_names) : ListIndex(joint_state.name, joint_names[i]) >= 0

\* The position the latest snapshot reports for the joint `name`.
PositionOf(name) == joint_state.position[ListIndex(joint_state.name, name) + 1]

\* |position of joint i - open_positions[i]| <= 0.1 * |open[i] - closed[i]|.
WithinOpenTolerance(i) ==
    TolDen * Abs(PositionOf(joint_names[i]) - open_gripper_joint_positions[i])
        <= TolNum * Abs(open_gripper_joint_positions[i]
                        - closed_gripper_joint_positions[i])

(* C5: whenever the latest snapshot carries every configured joint,        *)
(* is_open returns true exactly when every configured joint is within its  *)
(* tolerance 0.1 * |open - closed| of its open position, and false         *)
(* otherwise.                                                              *)
C5_IsOpenExact ==
    (constructed /\ HasAllJoints)
    => is_open.result =
           IF \A i \in 1..Len(joint_names) : WithinOpenTolerance(i)
           THEN "true" ELSE "false"

(* C6: in every reachable state is_closed is the negation of is_open:      *)
(* exactly one of the two is true whenever is_open returns, so a position  *)
(* outside the open tolerance counts as closed wherever it is.             *)
C6_ClosedIsNotOpen ==
    constructed
    => /\ is_closed.result = "true" <=> is_open.result = "false"
       /\ is_closed.result = "false" <=> is_open.result = "true"

\* is_closed returned true for a gripper whose joints are all away from
\* their closed positions.
C6_Witness ==
    /\ last_call.op = "is_closed"
    /\ last_call.outcome = "true"
    /\ HasAllJoints
    /\ Len(joint_names) = 2
    /\ \A i \in 1..Len(joint_names) :
           PositionOf(joint_names[i]) # closed_gripper_joint_positions[i]
    /\ \E i \in 1..Len(joint_names) : ~WithinOpenTolerance(i)

(* C7: as long as no joint state has been received, is_open returns true   *)
(* and is_closed false, neither raises, and the index cache stays unbuilt, *)
(* whatever was commanded before.                                          *)
C7_AssumedOpen ==
    (constructed /\ joint_state.is_none)
    => /\ is_open.result = "true"
       /\ is_closed.result = "false"
       /\ is_open.indices = NoList
       /\ last_call.classified \in {"true", "n/a"}

\* With a goal executing and still no feedback, open() read is_open, got
\* true and skipped.
C7_Witness ==
    /\ joint_state.is_none
    /\ Len(goals) > 0
    /\ ExecutionState = "Executing"
    /\ last_call.op = "open"
    /\ last_call.classified = "true"
    /\ last_call.outcome = "skipped"

(* C8: the object exists only if the three vectors have the same length;   *)
(* with any mismatch the constructor raises, nothing is precomputed and no *)
(* goal is ever sent.                                                      *)
C8_MismatchFailsConstruction ==
    /\ constructed
           => /\ Len(joint_names) = Len(open_gripper_joint_positions)
              /\ Len(joint_names) = Len(closed_gripper_joint_positions)
    /\ ~constructed
           => /\ open_dummy_trajectory_goal = Unset
              /\ close_dummy_trajectory_goal = Unset
              /\ goals = <<>>
              /\ ExecutionState = "Idle"
              /\ last_call = NoCall

C8_Witness ==
    /\ ~constructed
    /\ skip_planning
    /\ Len(joint_names) = Len(open_gripper_joint_positions)
    /\ Len(joint_names) # Len(closed_gripper_joint_positions)

----------------------------------------------------------------------------
(* wait_until_executed.                                                    *)

\* This step is a return of wait_until_executed().
WaitReturns ==
    /\ CallStep("wait_until_executed")
    /\ last_call'.outcome \in {"returned", "returned again", "returned after blocking"}

(* C9: wait_until_executed() never returns while the execution state is    *)
(* Dispatching or Executing, however long that lasts, and what it returns  *)
(* is the execution state it found; once the state of the awaited goal is  *)
(* Succeeded, Rejected, Aborted or Canceled, the blocked caller eventually *)
(* returns with that value.                                                *)
C9_WaitReturnsTerminal ==
    /\ [][WaitReturns
          => /\ ExecutionState \notin InFlight
             /\ last_result' = ExecutionState
             /\ ExecutionState' = ExecutionState]_vars
    /\ [][(CallStep("wait_until_executed") /\ ExecutionState \in InFlight)
          => pc' = "waiting"]_vars
    /\ \A v \in Terminal :
           (pc = "waiting" /\ ExecutionState = v)
               ~> (pc = "ready" /\ last_result = v
                   /\ last_call.outcome = "returned after blocking")

C9_Witness ==
    /\ pc = "ready"
    /\ last_call.op = "wait_until_executed"
    /\ last_call.outcome = "returned after blocking"
    /\ last_result = "Aborted"
    /\ ExecutionState = "Aborted"

(* C10: a call of wait_until_executed() with no dispatch since its         *)
(* previous return returns the same value again, at once, and changes      *)
(* neither the execution state nor the goals.                              *)
C10_WaitIdempotent ==
    [][(CallStep("wait_until_executed") /\ last_result # "none")
       => /\ last_result' = last_result
          /\ pc = "ready" /\ pc' = "ready"
          /\ last_call'.outcome = "returned again"
          /\ SendsNothing]_vars

C10_Witness ==
    /\ last_call.op = "wait_until_executed"
    /\ last_call.outcome = "returned again"
    /\ last_result = "Rejected"
    /\ ExecutionState = "Rejected"
    /\ pc = "ready"

----------------------------------------------------------------------------
(* The life of a goal.                                                     *)

\* One goal's status may go from `a` to `b` in one step.
LinearStep(a, b) ==
    \/ a = b
    \/ a = "Dispatching" /\ b \in {"Executing", "Rejected"}
    \/ a = "Executing" /\ b = "Completed"

(* C11: every goal goes Dispatching, then Executing, then one terminal     *)
(* value, or Dispatching then Rejected; a terminal goal changes no more.   *)
(* The execution state follows the same order: it becomes Executing or     *)
(* Rejected only from Dispatching, Succeeded, Aborted or Canceled only     *)
(* from Executing, and leaves a terminal value only by a new dispatch.     *)
C11_LinearPerGoal ==
    [][/\ Len(goals') >= Len(goals)
       /\ \A k \in 1..Len(goals) : LinearStep(goals[k].status, goals'[k].status)
       /\ ExecutionState' # ExecutionState
              => CASE ExecutionState' = "Dispatching" ->
                          /\ Len(goals') = Len(goals) + 1
                          /\ goals'[Len(goals')].status = "Dispatching"
                   [] ExecutionState' \in {"Executing", "Rejected"} ->
                          /\ ExecutionState = "Dispatching"
                          /\ Len(goals') = Len(goals)
                   [] ExecutionState' \in Outcomes ->
                          /\ ExecutionState = "Executing"
                          /\ Len(goals') = Len(goals)
                   [] OTHER -> FALSE]_vars

\* One goal was rejected, the next one accepted and then aborted.
C11_Witness ==
    /\ Len(goals) = 2
    /\ goals[1].status = "Rejected"
    /\ goals[2].status = "Completed"
    /\ ExecutionState = "Aborted"

----------------------------------------------------------------------------
(* The duration of a precomputed goal.                                     *)

\* The goal carries the duration `d`: its whole seconds are floor(d), its
\* nanoseconds are within [0, 10^9), and seconds plus nanoseconds are at most
\* d and less than one nanosecond below d.  With 10^9 = q * TicksPerSec + r
\* and frac the ticks of d above its whole seconds, the difference
\* 10^9 * frac - nanosec * TicksPerSec is r * frac - (nanosec - q * frac) *
\* TicksPerSec.
EncodesDuration(goal, d) ==
    LET frac == d - TicksPerSec * goal.duration_sec
        q == NanosPerSec \div TicksPerSec
        r == NanosPerSec % TicksPerSec
        rest == r * frac - (goal.duration_nanosec - q * frac) * TicksPerSec
    IN  /\ TicksPerSec * goal.duration_sec <= d
        /\ d < TicksPerSec * (goal.duration_sec + 1)
        /\ 0 <= goal.duration_nanosec
        /\ goal.duration_nanosec < NanosPerSec
        /\ 0 <= rest
        /\ rest < TicksPerSec

(* C12: in skip-planning mode the two precomputed goals, and every goal    *)
(* sent, carry the duration d given to the constructor as floor(d) seconds *)
(* and the rest of d in nanoseconds, within [0, 10^9) and less than one    *)
(* nanosecond short of d; 1.5 s is 1 s and 500000000 ns.                   *)
C12_DurationSplit ==
    (constructed /\ skip_planning)
    => /\ EncodesDuration(open_dummy_trajectory_goal, fixed_motion_duration)
       /\ EncodesDuration(close_dummy_trajectory_goal, fixed_motion_duration)
       /\ \A k \in 1..Len(goals) :
              EncodesDuration(goals[k].goal, fixed_motion_duration)
       /\ 2 * fixed_motion_duration = 3 * TicksPerSec
              => /\ open_dummy_trajectory_goal.duration_sec = 1
                 /\ open_dummy_trajectory_goal.duration_nanosec = 500000000

\* A goal of 1.5 s was sent: 1 s and 500000000 ns.
C12_Witness ==
    /\ skip_planning
    /\ 2 * fixed_motion_duration = 3 * TicksPerSec
    /\ Len(goals) > 0
    /\ goals[1].goal.duration_sec = 1
    /\ goals[1].goal.duration_nanosec = 500000000

----------------------------------------------------------------------------
(* The cached joint indices.                                               *)

\* The cache holds one index per configured joint.
CacheComplete ==
    /\ ~gripper_joint_indices.is_none
    /\ Len(gripper_joint_indices.list) = Len(joint_names)

(* C13: whenever the latest snapshot carries every configured joint and    *)
(* the cache is unbuilt or holds one index per joint, the indices is_open  *)
(* evaluates with are the joints' indices in the latest snapshot, whatever *)
(* the layout of the snapshots seen before.                                *)
C13_IndicesOfLatestSnapshot ==
    (constructed /\ HasAllJoints /\ (gripper_joint_indices.is_none \/ CacheComplete))
    => /\ Len(is_open.indices.list) = Len(joint_names)
       /\ \A i \in 1..Len(joint_names) :
              is_open.indices.list[i] = ListIndex(joint_state.name, joint_names[i])

(* C14: with several threads reading is_open, no evaluation iterates over *)
(* a list shorter than the configured joints, and once no thread is        *)
(* building it the cached list holds exactly one index per configured      *)
(* joint, each its index in the snapshot.                                  *)
C14_IndicesBuiltOnce ==
    /\ \A t \in Threads :
           evaluations[t].at = "loop"
               => evaluations[t].seen_len >= Len(joint_names)
    /\ (/\ ~gripper_joint_indices.is_none
        /\ ~joint_state.is_none
        /\ \A t \in Threads : evaluations[t].at # "build")
           => /\ Len(gripper_joint_indices.list) = Len(joint_names)
              /\ \A i \in 1..Len(joint_names) :
                     gripper_joint_indices.list[i]
                         = ListIndex(joint_state.name, joint_names[i])

----------------------------------------------------------------------------
(* Reset.                                                                  *)

(* C15: a call of reset_open() or reset_closed() sends no goal to the      *)
(* execution backend and leaves the execution state as it was, and a call  *)
(* of open() or close() is dropped by the admission policy only while a    *)
(* goal sent by open() or close() is Dispatching or Executing.             *)
C15_ResetOffActionPath ==
    [][/\ (CallStep("reset_open") \/ CallStep("reset_closed")) => SendsNothing
       /\ ((CallStep("open") \/ CallStep("close")) /\ last_call'.outcome = "dropped")
              => goals[Len(goals)].goal.kind = "planned"]_vars

----------------------------------------------------------------------------
(* The build mode.                                                         *)

\* The positions the command of this step asks for.
TargetOf(call) ==
    IF call.op = "open" THEN open_gripper_joint_positions
    ELSE IF call.op = "close" THEN closed_gripper_joint_positions
    ELSE IF call.classified = "true" THEN closed_gripper_joint_positions
         ELSE open_gripper_joint_positions

\* `goal` is what the build mode chosen at construction sends for `target`.
BuiltFor(goal, target) ==
    /\ goal.positions = target
    /\ goal.joint_names = joint_names
    /\ IF skip_planning
       THEN /\ goal.kind = "fixed"
            /\ goal.waypoints = 1
            /\ goal.duration_sec = DurationSec(fixed_motion_duration)
            /\ goal.duration_nanosec = DurationNanosec(fixed_motion_duration)
            /\ goal = IF target = open_gripper_joint_positions
                      THEN open_dummy_trajectory_goal
                      ELSE close_dummy_trajectory_goal
       ELSE /\ goal.kind = "planned"
            /\ open_dummy_trajectory_goal = Unset
            /\ close_dummy_trajectory_goal = Unset

(* C16: no step changes the build mode or the two precomputed goals, and   *)
(* every goal a command sends is, in skip-planning mode, the precomputed   *)
(* one-waypoint goal of the fixed duration for the command's positions,    *)
(* and otherwise a planned goal for these positions.                       *)
C16_BuildModeFixed ==
    [][/\ UNCHANGED <<skip_planning, fixed_motion_duration,
                      open_dummy_trajectory_goal, close_dummy_trajectory_goal>>
       /\ \A k \in (Len(goals) + 1)..Len(goals') :
              BuiltFor(goals'[k].goal, TargetOf(last_call'))
       /\ \A k \in 1..Len(goals) : goals'[k].goal = goals[k].goal]_vars

\* In skip-planning mode open() sent the precomputed open goal and close()
\* then the precomputed close goal.
C16_Witness ==
    /\ skip_planning
    /\ Len(goals) = 2
    /\ goals[1].goal = open_dummy_trajectory_goal
    /\ goals[2].goal = close_dummy_trajectory_goal
    /\ goals[1].goal # goals[2].goal
    /\ last_call.op = "close"
    /\ last_call.outcome = "dispatched"

----------------------------------------------------------------------------
(* Failures and retries.                                                   *)

Commands == {"open", "close", "toggle", "__call__"}

Failures == {"Rejected", "Aborted", "Canceled"}

(* C17: a goal is sent only by a step that is a call of open, close,       *)
(* toggle or the object itself which the admission policy admits, one goal *)
(* per call, so that the goals sent never outnumber the admitted calls; a  *)
(* failed execution state (Rejected, Aborted, Canceled) changes only by    *)
(* such a dispatch; a failure reaches the caller as the value              *)
(* wait_until_executed returns, and no call raises because of it.          *)
C17_NoAutomaticRetry ==
    [][/\ Len(goals') # Len(goals)
              => /\ last_call'.op \in Commands
                 /\ Admit(ExecutionState)
                 /\ Len(goals') = Len(goals) + 1
       /\ (ExecutionState \in Failures /\ ExecutionState' # ExecutionState)
              => /\ last_call'.op \in Commands
                 /\ ExecutionState' = "Dispatching"
                 /\ Len(goals') = Len(goals) + 1
       /\ (ExecutionState' \in Failures /\ ExecutionState' # ExecutionState)
              => last_call' = NoCall /\ pc' = pc
       /\ last_call'.outcome = "raised"
              => is_open.result = "raise"
       /\ (WaitReturns /\ ExecutionState \in Failures)
              => last_result' = ExecutionState]_vars

----------------------------------------------------------------------------
(* Overlapping commands.                                                   *)

\* The execution state is that of the goal sent last.
ReflectsLastGoal ==
    goals # <<>>
    => LET status == goals[Len(goals)].status IN
       /\ status \in InFlight \cup {"Rejected"} => ExecutionState = status
       /\ status = "Completed" => ExecutionState \in Outcomes

(* C18: with the policy flag off, a command that is neither skipped nor    *)
(* raises while a goal is Dispatching or Executing sends its goal and      *)
(* leaves the goals sent before as they were; the execution state is       *)
(* always that of the goal sent last, an event of an earlier goal does not *)
(* change it, and wait_until_executed returns only when the goal sent last *)
(* is terminal.                                                            *)
C18_TracksLatestGoal ==
    [][~ignore_new_calls_while_executing
       => /\ (/\ last_call'.op \in Commands
               /\ last_call'.outcome \notin {"skipped", "raised"}
               /\ ExecutionState \in InFlight)
                 => /\ Len(goals') = Len(goals) + 1
                    /\ SubSeq(goals', 1, Len(goals)) = goals
                    /\ ExecutionState' = "Dispatching"
          /\ ReflectsLastGoal
          /\ (\E k \in 1..(Len(goals) - 1) : goals'[k] # goals[k])
                 => /\ ExecutionState' = ExecutionState
                    /\ pc' = pc
          /\ WaitReturns
                 => \/ goals = <<>>
                    \/ goals[Len(goals)].status \in {"Rejected", "Completed"}]_vars

\* Planned mode, flag off: a second command was sent while the first goal
\* was executing, and the first goal is executing still.
C18_Witness ==
    /\ ~ignore_new_calls_while_executing
    /\ ~skip_planning
    /\ last_call.op \in Commands
    /\ last_call.in_flight
    /\ last_call.outcome = "dispatched"
    /\ Len(goals) = 2
    /\ goals[1].status = "Executing"
    /\ ExecutionState = "Dispatching"

----------------------------------------------------------------------------
(* The cache after a failed lookup.                                        *)

(* C19: in every state the cached indices are either unbuilt (None) or     *)
(* hold exactly one index per configured joint: a lookup that fails on a   *)
(* snapshot lacking a configured joint leaves the cache unbuilt.           *)
C19_CacheUnbuiltOrComplete ==
    constructed => (gripper_joint_indices.is_none \/ CacheComplete)

====
